---- MODULE Spec2Model ----
(***************************************************************************)
(* The agent portrayal callbacks of docs/tutorials/visualization_tutorial  *)
(* (the two definitions of agent_portrayal), executed line by line on      *)
(* Python frames, together with the collaborators that drive them: the     *)
(* notebook cells that (re)bind the name, the simulation that changes the  *)
(* agents' wealth, and the grid visualizer that calls the portrayal once   *)
(* per agent and keeps the record it returns.                              *)
(***************************************************************************)
EXTENDS Integers, FiniteSets, TLC

\* ------------------------------------------------------------------ bounds
NumAgents == 2
MaxWealth == 1

Agents == 1..NumAgents
\* wealth values an agent may hold: one negative value, zero, and positives
Wealth == (0 - 1)..MaxWealth

VARIABLES
    agents,     \* the heap: agent handle -> the agent's attribute dictionary
    binding,    \* which definition the name agent_portrayal is bound to
    cur,        \* the frame of the visualizer's call in progress (sequential rendering)
    prev,       \* the finished frame of the call before it (the record already drawn)
    calls       \* concurrent rendering: one frame per agent

vars == <<agents, binding, cur, prev, calls>>

\* ------------------------------------------------------- Python objects
\* an object with no attributes
NoAttrs == [n \in {} |-> 0]

\* an agent of the money model: it has a wealth
WealthyEntity(w) == [wealth |-> w]

Entities == {NoAttrs} \cup {WealthyEntity(w) : w \in Wealth}

\* hasattr(obj, name)
HasAttr(obj, name) == name \in DOMAIN obj

\* obj.name = v
SetAttr(obj, name, v) == [n \in DOMAIN obj \cup {name} |-> IF n = name THEN v ELSE obj[n]]

\* the outcome of a call: a returned value or a raised exception
NoResult == [kind |-> "none"]
Return(v) == [kind |-> "return", value |-> v]
Raise(e) == [kind |-> "raise", exc |-> e]

\* no call in progress
Idle == [pc |-> "idle"]

\* the local namespace of a frame: name = v
SetLocal(locals, name, v) == [n \in DOMAIN locals \cup {name} |-> IF n = name THEN v ELSE locals[n]]

\* def agent_portrayal(agent): the frame at function entry. The parameter
\* agent is bound and nothing else; seen is the set of attribute dictionaries
\* the call has read so far
NewFrameCached(a, fn) ==
    IF prev.pc = "done" /\ prev.agent = a /\ prev.fn = fn
    THEN [prev EXCEPT !.seen = {}]
    ELSE [pc |-> IF fn = "first" THEN "l67" ELSE "l153",
          fn |-> fn, agent |-> a, locals |-> NoAttrs, seen |-> {}, result |-> NoResult]
NewFrame(a, fn) ==
    [pc |-> IF fn = "first" THEN "l67" ELSE "l153",
     fn |-> fn, agent |-> a, locals |-> NoAttrs, seen |-> {}, result |-> NoResult]

\* the frame once the function is left: its locals are gone
Leave(f, pc, res) == [f EXCEPT !.pc = pc, !.locals = NoAttrs, !.result = res]

\* one executed line: the frame and the heap after it
After(f, heap) == [frame |-> f, heap |-> heap]

\* ----------------------------------- agent_portrayal, the first definition
\* return {"color": "tab:blue", "size": 50}
Line67ReadsWealth(f, heap) ==
    IF HasAttr(heap[f.agent], "wealth")
    THEN After(Leave(f, "done", Return([color |-> "tab:blue", size |-> 50])), heap)
    ELSE After(Leave(f, "raised", Raise("AttributeError")), heap)
Line67(f, heap) ==
    After(Leave(f, "done", Return([color |-> "tab:blue", size |-> 50])), heap)

\* ---------------------------------- agent_portrayal, the second definition
\* size = 10
Line153ById(f, heap) ==
    After([f EXCEPT !.pc = "l154", !.locals = SetLocal(@, "size", 10 + f.agent)], heap)
Line153(f, heap) ==
    After([f EXCEPT !.pc = "l154", !.locals = SetLocal(@, "size", 10)], heap)

\* color = "tab:red"
Line154(f, heap) ==
    After([f EXCEPT !.pc = "l155", !.locals = SetLocal(@, "color", "tab:red")], heap)

\* if agent.wealth > 0:
\* (AttributeError when the agent has no attribute wealth)
Line155Default(f, heap) ==
    LET obj == heap[f.agent]
        w == IF HasAttr(obj, "wealth") THEN obj.wealth ELSE 0
    IN After([f EXCEPT !.pc = IF w > 0 THEN "l156" ELSE "l158",
                       !.seen = @ \cup {obj}], heap)
Line155Geq(f, heap) ==
    LET obj == heap[f.agent] IN
    IF ~HasAttr(obj, "wealth")
    THEN After([Leave(f, "raised", Raise("AttributeError")) EXCEPT !.seen = @ \cup {obj}], heap)
    ELSE After([f EXCEPT !.pc = IF obj.wealth >= 0 THEN "l156" ELSE "l158",
                         !.seen = @ \cup {obj}], heap)
Line155Neq(f, heap) ==
    LET obj == heap[f.agent] IN
    IF ~HasAttr(obj, "wealth")
    THEN After([Leave(f, "raised", Raise("AttributeError")) EXCEPT !.seen = @ \cup {obj}], heap)
    ELSE After([f EXCEPT !.pc = IF obj.wealth # 0 THEN "l156" ELSE "l158",
                         !.seen = @ \cup {obj}], heap)
Line155(f, heap) ==
    LET obj == heap[f.agent] IN
    IF ~HasAttr(obj, "wealth")
    THEN After([Leave(f, "raised", Raise("AttributeError")) EXCEPT !.seen = @ \cup {obj}], heap)
    ELSE After([f EXCEPT !.pc = IF obj.wealth > 0 THEN "l156" ELSE "l158",
                         !.seen = @ \cup {obj}], heap)

\* size = 50
Line156OnAgent(f, heap) ==
    After([f EXCEPT !.pc = "l157"], [heap EXCEPT ![f.agent] = SetAttr(@, "size", 50)])
Line156(f, heap) ==
    After([f EXCEPT !.pc = "l157", !.locals = SetLocal(@, "size", 50)], heap)

\* color = "tab:blue"
Line157Red(f, heap) ==
    After([f EXCEPT !.pc = "l158", !.locals = SetLocal(@, "color", "tab:red")], heap)
Line157(f, heap) ==
    After([f EXCEPT !.pc = "l158", !.locals = SetLocal(@, "color", "tab:blue")], heap)

\* return {"size": size, "color": color}
Line158SizeOnly(f, heap) ==
    After(Leave(f, "done", Return([size |-> f.locals.size])), heap)
Line158(f, heap) ==
    After(Leave(f, "done", Return([size |-> f.locals.size, color |-> f.locals.color])), heap)

\* the line a frame executes next
Running(f) == f.pc \in {"l67", "l153", "l154", "l155", "l156", "l157", "l158"}
Finished(f) == f.pc \in {"done", "raised"}

Exec(f, heap) ==
    CASE f.pc = "l67"  -> Line67(f, heap)
      [] f.pc = "l153" -> Line153(f, heap)
      [] f.pc = "l154" -> Line154(f, heap)
      [] f.pc = "l155" -> Line155(f, heap)
      [] f.pc = "l156" -> Line156(f, heap)
      [] f.pc = "l157" -> Line157(f, heap)
      [] f.pc = "l158" -> Line158(f, heap)

\* ------------------------------------------------------------ initial state
\* the first cell defining agent_portrayal has run; no call has been made
Init ==
    /\ agents \in [Agents -> Entities]
    /\ binding = "first"
    /\ cur = Idle
    /\ prev = Idle
    /\ calls = [a \in Agents |-> Idle]

\* ------------------------------------------------------------ notebook cells
\* running the cell of the first definition (re)binds agent_portrayal to it
RunCell66 ==
    /\ binding # "first"
    /\ binding' = "first"
    /\ UNCHANGED <<agents, cur, prev, calls>>

\* running the cell of the second definition rebinds agent_portrayal to it
RunCell152 ==
    /\ binding # "second"
    /\ binding' = "second"
    /\ UNCHANGED <<agents, cur, prev, calls>>

\* ------------------------------------------------------------ the simulation
\* a model step changes the wealth of an agent that has one
Step(a, w) ==
    /\ HasAttr(agents[a], "wealth")
    /\ agents[a].wealth # w
    /\ agents' = [agents EXCEPT ![a] = SetAttr(@, "wealth", w)]
    /\ UNCHANGED <<binding, cur, prev, calls>>

\* ------------------------------------------ sequential rendering (one call)
\* the visualizer calls agent_portrayal(agent)
Call(a) ==
    /\ cur = Idle
    /\ cur' = NewFrame(a, binding)
    /\ UNCHANGED <<agents, binding, prev, calls>>

\* the call executes its next line
Run ==
    /\ Running(cur)
    /\ cur' = Exec(cur, agents).frame
    /\ agents' = Exec(cur, agents).heap
    /\ UNCHANGED <<binding, prev, calls>>

\* the visualizer takes the outcome of the call and keeps it as the one drawn;
\* the frame is gone
Collect ==
    /\ Finished(cur)
    /\ prev' = cur
    /\ cur' = Idle
    /\ UNCHANGED <<agents, binding, calls>>

\* the visualizer takes the outcome of the call and drops it (an earlier one stays)
Discard ==
    /\ Finished(cur)
    /\ prev # Idle
    /\ cur' = Idle
    /\ UNCHANGED <<agents, binding, prev, calls>>

Next ==
    \/ RunCell66
    \/ RunCell152
    \/ \E a \in Agents, w \in Wealth : Step(a, w)
    \/ \E a \in Agents : Call(a)
    \/ Run
    \/ Collect
    \/ Discard

Spec == Init /\ [][Next]_vars

\* ------------------------------- concurrent rendering (one call per agent)
\* the second definition is bound; calls on different agents are in progress
\* at once and their lines interleave
InitConc ==
    /\ agents \in [Agents -> Entities]
    /\ binding = "second"
    /\ cur = Idle
    /\ prev = Idle
    /\ calls = [a \in Agents |-> Idle]

\* each call has a frame of its own: writing the frame of one call leaves the
\* frames of the others as they are
StoreGlobals(cs, a, f) ==
    [b \in DOMAIN cs |->
        IF b = a THEN f
        ELSE IF Running(cs[b]) /\ Running(f)
             THEN [cs[b] EXCEPT !.locals =
                     [n \in DOMAIN cs[b].locals \cup DOMAIN f.locals |->
                         IF n \in DOMAIN f.locals THEN f.locals[n] ELSE cs[b].locals[n]]]
             ELSE cs[b]]
Store(cs, a, f) == [cs EXCEPT ![a] = f]

ConcCall(a) ==
    /\ calls[a] = Idle
    /\ calls' = Store(calls, a, NewFrame(a, binding))
    /\ UNCHANGED <<agents, binding, cur, prev>>

ConcRun(a) ==
    /\ Running(calls[a])
    /\ calls' = Store(calls, a, Exec(calls[a], agents).frame)
    /\ agents' = Exec(calls[a], agents).heap
    /\ UNCHANGED <<binding, cur, prev>>

ConcCollect(a) ==
    /\ Finished(calls[a])
    /\ calls' = Store(calls, a, Idle)
    /\ UNCHANGED <<agents, binding, cur, prev>>

NextConc ==
    \/ \E a \in Agents, w \in Wealth : Step(a, w)
    \/ \E a \in Agents : ConcCall(a)
    \/ \E a \in Agents : ConcRun(a)
    \/ \E a \in Agents : ConcCollect(a)

SpecConc == InitConc /\ [][NextConc]_vars


\* ===================================================================== claims
\* the two Display Records of the specification
Favorable == [color |-> "tab:blue", size |-> 50]
Baseline == [color |-> "tab:red", size |-> 10]

\* the frames the sequential visualizer holds
Held == {cur, prev}

\* a finished call of the second (wealth-based) definition
FinishedSecond(f) == Finished(f) /\ f.fn = "second"
\* a finished call of the first (simplest) definition
FinishedFirst(f) == Finished(f) /\ f.fn = "first"

\* the call read a wealth (the attribute was there when line 155 ran)
ReadWealth(f) == {obj.wealth : obj \in {o \in f.seen : HasAttr(o, "wealth")}}

\* C1: a finished call of the wealth-based agent_portrayal that found
\* wealth > 0 returned exactly {color: "tab:blue", size: 50}
C1_PositiveWealthFavorable ==
    \A f \in Held :
        (FinishedSecond(f) /\ \E w \in ReadWealth(f) : w > 0)
            => f.result = Return(Favorable)

C1_Witness ==
    /\ FinishedSecond(cur)
    /\ MaxWealth \in ReadWealth(cur)
    /\ cur.result.kind = "return"

\* C2: a finished call of the wealth-based agent_portrayal that found
\* wealth = 0 (a broke agent) returned exactly {color: "tab:red", size: 10},
\* which is red and smaller than the record of a non-broke agent
C2_BrokeBaseline ==
    \A f \in Held :
        (FinishedSecond(f) /\ 0 \in ReadWealth(f))
            => /\ f.result = Return(Baseline)
               /\ f.result.value.color = "tab:red"
               /\ f.result.value.size < Favorable.size

C2_Witness ==
    /\ FinishedSecond(cur)
    /\ ReadWealth(cur) = {0}
    /\ cur.result.kind = "return"

\* C3: a call of the wealth-based agent_portrayal on an entity without a
\* wealth attribute ends by raising (AttributeError, the specification's
\* AttributeMissing) and never by returning a record, the baseline included
C3_MissingAttributeFails ==
    \A f \in Held :
        (FinishedSecond(f) /\ \E o \in f.seen : ~HasAttr(o, "wealth"))
            => /\ f.pc = "raised"
               /\ f.result = Raise("AttributeError")
               /\ f.result.kind # "return"

C3_Witness ==
    /\ cur.pc = "raised"
    /\ cur.fn = "second"
    /\ ~HasAttr(agents[cur.agent], "wealth")
    /\ cur.seen = {NoAttrs}

\* C4: every executed line of agent_portrayal, of either definition and
\* whether the call then goes on, returns or raises, leaves every attribute
\* of every entity as it was
C4_Purity == [][Run => agents' = agents]_vars

C4_Witness ==
    /\ prev.pc = "raised"
    /\ cur.pc = "done"
    /\ cur.fn = "second"
    /\ cur.agent # prev.agent
    /\ agents[cur.agent] \in cur.seen
    /\ agents[prev.agent] \in prev.seen

\* C5: two finished calls of the same definition that found identical
\* attribute values, on the same entity or on two entities and with other
\* calls in between or not, have structurally equal outcomes
C5_Determinism ==
    (Finished(cur) /\ Finished(prev) /\ cur.fn = prev.fn /\ cur.seen = prev.seen)
        => cur.result = prev.result

C5_Witness ==
    /\ FinishedSecond(cur)
    /\ FinishedSecond(prev)
    /\ cur.agent # prev.agent
    /\ cur.seen = prev.seen
    /\ cur.result.kind = "return"

C5_WitnessSameEntity ==
    /\ FinishedSecond(cur)
    /\ FinishedSecond(prev)
    /\ cur.agent = prev.agent
    /\ cur.seen = prev.seen
    /\ cur.result.kind = "return"

\* C6: every record agent_portrayal returns has exactly the fields color and
\* size, the color one of the two color names and the size a positive number
C6_RecordWellFormed ==
    \A f \in Held :
        (Finished(f) /\ f.result.kind = "return")
            => /\ DOMAIN f.result.value = {"color", "size"}
               /\ f.result.value.color \in {"tab:red", "tab:blue"}
               /\ f.result.value.size \in Nat
               /\ f.result.value.size > 0

C6_Witness ==
    /\ cur.pc = "done"
    /\ prev.pc = "done"
    /\ cur.fn = "second"
    /\ prev.fn = "second"
    /\ cur.result # prev.result

\* the outcome the wealth-based definition gives for an attribute dictionary
OutcomeFor(obj) ==
    IF HasAttr(obj, "wealth")
    THEN Return(IF obj.wealth > 0 THEN Favorable ELSE Baseline)
    ELSE Raise("AttributeError")

\* C7: a call made in a later frame on an entity that an earlier frame
\* already portrayed reads the entity again, once, and its outcome is the one
\* for what it read, not the record or the wealth of the earlier frame
C7_NoMemoization ==
    (FinishedSecond(cur) /\ FinishedSecond(prev) /\ prev.agent = cur.agent)
        => \E obj \in cur.seen :
              /\ cur.seen = {obj}
              /\ cur.result = OutcomeFor(obj)

\* broke in the earlier frame, favorable in the later one
C7_Witness ==
    /\ FinishedSecond(cur)
    /\ FinishedSecond(prev)
    /\ prev.agent = cur.agent
    /\ prev.result = Return(Baseline)
    /\ cur.result = Return(Favorable)

\* favorable in the earlier frame, broke in the later one
C7_WitnessConverse ==
    /\ FinishedSecond(cur)
    /\ FinishedSecond(prev)
    /\ prev.agent = cur.agent
    /\ prev.result = Return(Favorable)
    /\ cur.result = Return(Baseline)

\* a call run alone to its end on a heap: its outcome
RECURSIVE RunAlone(_, _)
RunAlone(f, heap) ==
    IF Finished(f) THEN f.result
    ELSE RunAlone(Exec(f, heap).frame, Exec(f, heap).heap)

\* the outcome of a call on agent a run alone, the agent being as obj
AloneOutcome(a, obj) == RunAlone(NewFrame(a, "second"), [agents EXCEPT ![a] = obj])

\* C8: under every interleaving of the lines of the calls in progress on
\* different entities, the record a call is about to return at line 158,
\* and the outcome of a finished call, are those of the same call run alone
C8_NoInterference ==
    \A a \in Agents :
        LET f == calls[a] IN
        /\ Finished(f) =>
              \E obj \in f.seen : f.seen = {obj} /\ f.result = AloneOutcome(a, obj)
        /\ f.pc = "l158" =>
              \E obj \in f.seen :
                  /\ f.seen = {obj}
                  /\ Return([size |-> f.locals.size, color |-> f.locals.color])
                        = AloneOutcome(a, obj)

\* two calls in progress at once, about to return different records, and a
\* call that finished next to them
C8_Witness ==
    \E a \in Agents, b \in Agents :
        /\ a # b
        /\ calls[a].pc = "l158"
        /\ calls[a].locals = [size |-> 50, color |-> "tab:blue"]
        /\ calls[b].pc = "l155"
        /\ calls[b].locals = [size |-> 10, color |-> "tab:red"]

C8_WitnessFinished ==
    \E a \in Agents, b \in Agents :
        /\ a # b
        /\ calls[a].pc = "done"
        /\ calls[a].result = Return(Favorable)
        /\ calls[b].pc = "l158"
        /\ calls[b].locals = [size |-> 10, color |-> "tab:red"]

\* C9: a call of the first (simplest) agent_portrayal always returns
\* {color: "tab:blue", size: 50} and never raises, whatever the entity,
\* one without a wealth attribute included
C9_SimplestAlwaysBlue ==
    \A f \in Held :
        /\ FinishedFirst(f) => (f.pc = "done" /\ f.result = Return(Favorable))
        /\ f.pc = "raised" => f.fn = "second"

C9_Witness ==
    /\ FinishedFirst(cur)
    /\ ~HasAttr(agents[cur.agent], "wealth")
    /\ FinishedFirst(prev)
    /\ HasAttr(agents[prev.agent], "wealth")

\* C10: a finished call of the wealth-based agent_portrayal that read a
\* wealth returned the favorable record if and only if that wealth was > 0,
\* and the baseline record otherwise, negative wealth included; it returned
\* no third record
C10_TwoValuedClassifier ==
    \A f \in Held :
        FinishedSecond(f) =>
            \A w \in ReadWealth(f) :
                /\ f.result \in {Return(Favorable), Return(Baseline)}
                /\ (f.result = Return(Favorable)) <=> (w > 0)
                /\ (f.result = Return(Baseline)) <=> (w <= 0)

C10_Witness ==
    /\ FinishedSecond(cur)
    /\ \E w \in ReadWealth(cur) : w < 0
    /\ cur.result = Return(Baseline)

====
